---- MODULE Spec2Model ----
(***************************************************************************)
(* A model of the control plane of f2: the service registry                *)
(* (src/service_registry.rs), the admin endpoints of the proxy             *)
(* (src/load_balancer/proxy.rs), the message bus (src/ipc.rs) and the      *)
(* reconciler (src/reconciler.rs) driving a container engine               *)
(* (src/docker/api.rs, src/docker/client.rs).                              *)
(*                                                                         *)
(* Strings the code inspects character by character (request paths, path   *)
(* prefixes, Authorization headers) are sequences of one-character         *)
(* strings.  An Option<T> that is compared is a set with at most one       *)
(* element: {} is None and {x} is Some(x).  A HashMap is a function whose   *)
(* DOMAIN is the set of keys present.  An IndexSet is a sequence without   *)
(* repeated elements, in insertion order.                                  *)
(***************************************************************************)
EXTENDS Integers, Sequences, FiniteSets, TLC

VARIABLES
    definitions,     \* ServiceRegistry.definitions: name -> Service
    containers,      \* ServiceRegistry.containers: name -> IndexSet<StartedContainerDetails>
    found,           \* the last find_downstreams call and what it returned
    reconciliation,  \* MessageBus.reconciliation: the identifiers of the queued messages
    resolver,        \* MessageBus.resolver: the identifiers of the queued messages
    nextUuid,        \* the next identifier Uuid::new_v4 hands out
    response,        \* the last request handle_request served and its answer
    config,          \* Reconciler.config (the manifest handle): name -> Service
    engine,          \* the container engine: container id -> [image, status]
    images,          \* the container engine: the image:tag references held locally
    nextId,          \* the next container id the engine hands out
    pc,              \* where the reconciler task is
    pending,         \* the changes of the current diff that are not dispatched yet
    cur,             \* the change being handled, or NoChange
    running,         \* handle_alteration / handle_removal: running_containers
    started,         \* start_multiple_containers: started_containers
    fresh,           \* create_and_start_container: the id create_container returned
    idx,             \* the position of the loop over running_containers
    result,          \* what the handler of cur returned: "pending", "ok" or "err"
    log,             \* the engine calls and registry writes made for cur, in order
    pre,             \* the registry and the engine as they were when cur was dispatched
    process,         \* main: "running", or why the process has exited
    staged,          \* the certificate material on disk: domain -> what the files hold
    domains,         \* CertificateResolver.domains (the ArcSwap): domain -> certificate
    building,        \* resolve_and_parse_certificates: the map being built
    todo,            \* resolve_and_parse_certificates: the domains still to read, in order
    certPc,          \* where the task of poll_for_certificate_updates is
    hello,           \* the last handshake CertificateResolver::resolve answered
    lastUpdate,      \* the last certificate update: its outcome and the map before it
    mtls,            \* config.alb.mtls of the manifest in the handle: domains, as an Option
    level,           \* the last call of DynamicAuthenticationLevelResolver::resolve
    traffic,         \* per channel, the identifiers sent and received so far, in order
    content,         \* decrypt_content: the bytes of the file to mount, as characters
    private_key,     \* decrypt_content: the private key, as an Option
    decrypted,       \* what the last call of decrypt_content returned
    updates,         \* the outcomes of the certificate updates that have ended, in order
    registry_lock,   \* the RwLock of the registry: the tasks holding a read guard, and
                     \* whether the reconciler holds the write guard across a suspension
    handlers,        \* per connection task of the proxy: where its handle_request is
    rng,             \* the Mutex of the random generator: the task holding its guard
    thresholds,      \* HealthCheckConfiguration: success_threshold and failure_threshold
    successes,       \* HealthCheck::run: successes
    failures,        \* HealthCheck::run: failures
    outcomes,        \* the outcomes of the probes HealthCheck::run has made, in order
    health           \* what HealthCheck::run returned, or "probing"

registryVars == <<definitions, containers, found>>
busVars == <<reconciliation, resolver, nextUuid, traffic>>
changeVars == <<pending, cur, running, started, fresh, idx, result, log, pre>>
reconcilerVars == <<config, engine, images, nextId, pc, changeVars, process>>
tlsVars == <<staged, domains, building, todo, certPc, hello, lastUpdate, mtls, level,
            updates>>
unsealVars == <<content, private_key, decrypted>>
lockVars == <<registry_lock, handlers, rng>>
healthVars == <<thresholds, successes, failures, outcomes, health>>
\* what only the actions of decrypt_content, of the read path of the proxy
\* and of the health check change
apartVars == <<unsealVars, lockVars, healthVars>>
vars == <<definitions, containers, found, reconciliation, resolver, nextUuid,
          response, config, engine, images, nextId, pc, pending, cur, running,
          started, fresh, idx, result, log, pre, process,
          staged, domains, building, todo, certPc, hello, lastUpdate, mtls, level,
          traffic, content, private_key, decrypted, updates, registry_lock,
          handlers, rng, thresholds, successes, failures, outcomes, health>>

(***************************************************************************)
(* Bounds of the model.                                                    *)
(***************************************************************************)
\* the container ids the engine can hand out are 1..MaxIds
MaxIds == 4
\* the messages sent on the bus, both channels together
MaxMessages == 2

(***************************************************************************)
(* Generic helpers.                                                        *)
(***************************************************************************)
Range(s) == {s[i] : i \in DOMAIN s}

\* every ordering of a finite set: its sequences without repetition
Orderings(S) ==
    {s \in [1..Cardinality(S) -> S] : \A i, j \in 1..Cardinality(S) : s[i] = s[j] => i = j}

\* str::strip_prefix: Some(rest) as {rest}, None as {}
StripPrefix(s, p) ==
    IF Len(p) <= Len(s) /\ SubSeq(s, 1, Len(p)) = p
    THEN {SubSeq(s, Len(p) + 1, Len(s))}
    ELSE {}

\* HashMap::insert / HashMap::remove on a function
MapInsert(m, k, v) == [x \in DOMAIN m \cup {k} |-> IF x = k THEN v ELSE m[x]]
MapRemove(m, k) == [x \in DOMAIN m \ {k} |-> m[x]]

(***************************************************************************)
(* The data of the model.                                                  *)
(***************************************************************************)
Names == {"frontend", "backend"}

\* usize::MAX; the model's integers are 32 bits wide, and the value is only
\* ever compared with the length of a path
USIZE_MAX == 2147483647

Api == <<"/", "a", "p", "i">>
ApiV1 == <<"/", "a", "p", "i", "/", "v", "1">>
ApiHealth == <<"/", "a", "p", "i", "/", "h">>
Health == <<"/", "h">>
Paths == {Api, ApiV1, ApiHealth, Health}
Hosts == {"example.com", "other.org"}

ShutdownModes == {"Graceful", "Forceful"}

Service(image, tag, port, replicas, host, prefix, mode) ==
    [image |-> image, tag |-> tag, port |-> port, replicas |-> replicas,
     host |-> host, path_prefix |-> prefix, shutdown_mode |-> mode]

\* the services the registry operations are exercised with: they differ in
\* their route
RouteServices ==
    {Service("org/app", "1", 80, 1, h, p, "Forceful") :
        h \in Hosts, p \in {{}, {Api}, {ApiV1}}}

Details(id, addr) == [id |-> id, addr |-> addr]

(***************************************************************************)
(* ServiceRegistry (src/service_registry.rs).                              *)
(***************************************************************************)
ComputePathPrefixMatch_NoMatchIsZero(path, prefix) ==
    IF prefix = {} THEN Len(path)
    ELSE LET p == CHOOSE x \in prefix : TRUE
             rest == StripPrefix(path, p)
         IN IF rest = {} THEN 0 ELSE Len(CHOOSE r \in rest : TRUE)

compute_path_prefix_match(path, prefix) ==
    IF prefix = {} THEN Len(path)
    ELSE LET p == CHOOSE x \in prefix : TRUE
             rest == StripPrefix(path, p)
         IN IF rest = {} THEN USIZE_MAX ELSE Len(CHOOSE r \in rest : TRUE)

\* define: HashMap::insert replaces
RegDefine(defs, service, definition) == MapInsert(defs, service, definition)

\* undefine touches the definitions only
RegUndefine(defs, service) == MapRemove(defs, service)

\* get_running_containers: Some(set) as {set}, None as {}
GetRunningContainers(conts, service) ==
    IF service \in DOMAIN conts THEN {conts[service]} ELSE {}

RegAddContainer_UnderEveryName(conts, service, details) ==
    [n \in DOMAIN conts \cup {service} |->
        LET old == IF n \in DOMAIN conts THEN conts[n] ELSE <<>>
        IN IF details \in Range(old) THEN old ELSE Append(old, details)]

\* add_container: entry().or_default().insert(details); the IndexSet compares
\* the whole StartedContainerDetails (derived Eq and Hash)
RegAddContainer(conts, service, details) ==
    LET old == IF service \in DOMAIN conts THEN conts[service] ELSE <<>>
    IN MapInsert(conts, service,
                 IF details \in Range(old) THEN old ELSE Append(old, details))

RegRemoveAllContainers_OfEveryService(conts, service) == [n \in {} |-> <<>>]

RegRemoveAllContainers(conts, service) == MapRemove(conts, service)

RegRemoveContainerById_DropsTheSet(conts, service, id) == MapRemove(conts, service)

\* remove_container_by_id: retain keeps the order of what stays
RegRemoveContainerById(conts, service, id) ==
    IF service \in DOMAIN conts
    THEN [conts EXCEPT ![service] = SelectSeq(conts[service], LAMBDA c : c.id # id)]
    ELSE conts

\* find_downstreams up to min_by_key: the entries whose host is the request's
HostMatches(defs, host) == {n \in DOMAIN defs : defs[n].host = host}

\* min_by_key returns the first minimum in the iteration order of the HashMap,
\* which is arbitrary: every entry with the least key can be the one selected
SelectedBy(defs, host, path) ==
    {n \in HostMatches(defs, host) :
        \A m \in HostMatches(defs, host) :
            compute_path_prefix_match(path, defs[n].path_prefix)
                <= compute_path_prefix_match(path, defs[m].path_prefix)}

NoneFound == [kind |-> "None"]
SomeFound(downstreams, port) ==
    [kind |-> "Some", downstreams |-> downstreams, port |-> port]

\* find_downstreams after min_by_key: and_then(get_running_containers(..).map(..))
\* on the entry selected ({} when no entry has the host)
AndThenDownstreams(defs, conts, selected) ==
    IF selected = {} THEN NoneFound
    ELSE LET n == CHOOSE x \in selected : TRUE
         IN IF GetRunningContainers(conts, n) = {} THEN NoneFound
            ELSE SomeFound(conts[n], defs[n].port)

\* find_downstreams: every (selected entry, result) the call can produce; the
\* caller sees the result only
find_downstreams(defs, conts, host, path) ==
    {[selected |-> sel, result |-> AndThenDownstreams(defs, conts, sel)] :
        sel \in (IF SelectedBy(defs, host, path) = {} THEN {{}}
                 ELSE {{n} : n \in SelectedBy(defs, host, path)})}

\* no find_downstreams result is held
NoCall == [called |-> FALSE]

(***************************************************************************)
(* The operations of the registry as actions, on any arguments.  The       *)
(* result of find_downstreams borrows the registry, so no result is held   *)
(* across a mutation (&mut self).                                          *)
(***************************************************************************)
\* the backends one service is given in the exploration of the registry
MaxBackends == 2

\* an address 10.0.0.n is the integer n
RegistryDetails == {Details(1, 1), Details(1, 2), Details(2, 1)}

others == <<busVars, response, reconcilerVars, tlsVars, apartVars>>

Define(service, definition) ==
    /\ definitions' = RegDefine(definitions, service, definition)
    /\ found' = NoCall
    /\ UNCHANGED <<containers, others>>

Undefine(service) ==
    /\ definitions' = RegUndefine(definitions, service)
    /\ found' = NoCall
    /\ UNCHANGED <<containers, others>>

AddContainer(service, details) ==
    /\ Len(RegAddContainer(containers, service, details)[service]) <= MaxBackends
    /\ containers' = RegAddContainer(containers, service, details)
    /\ found' = NoCall
    /\ UNCHANGED <<definitions, others>>

RemoveAllContainers(service) ==
    /\ containers' = RegRemoveAllContainers(containers, service)
    /\ found' = NoCall
    /\ UNCHANGED <<definitions, others>>

RemoveContainerById(service, id) ==
    /\ containers' = RegRemoveContainerById(containers, service, id)
    /\ found' = NoCall
    /\ UNCHANGED <<definitions, others>>

FindDownstreams(host, path) ==
    /\ \E r \in find_downstreams(definitions, containers, host, path) :
         found' = [called |-> TRUE, host |-> host, path |-> path,
                   selected |-> r.selected, result |-> r.result]
    /\ UNCHANGED <<definitions, containers, others>>

(***************************************************************************)
(* MessageBus (src/ipc.rs): two unbounded channels; a message carries a    *)
(* fresh identifier.                                                       *)
(***************************************************************************)
\* Sender::send on an unbounded channel whose receiver the bus itself holds:
\* it cannot fail, and appends
ChannelSend_Prepends(channel, identifier) == <<identifier>> \o channel

ChannelSend(channel, identifier) == Append(channel, identifier)

\* Receiver::recv_async on a channel that holds a message: the oldest message
\* leaves the channel and is returned
ChannelReceive(channel) == [message |-> Head(channel), rest |-> Tail(channel)]

\* nothing sent, nothing received
NoTraffic ==
    [sent |-> [reconciliation |-> <<>>, resolver |-> <<>>],
     received |-> [reconciliation |-> <<>>, resolver |-> <<>>]]

\* send_*_request returned Ok(identifier) on the channel named name
Sent(t, name, identifier) == [t EXCEPT !.sent[name] = Append(@, identifier)]

\* receive_*_request returned the message with this identifier
Received(t, name, identifier) == [t EXCEPT !.received[name] = Append(@, identifier)]

(***************************************************************************)
(* The proxy (src/load_balancer/proxy.rs).  A request is                   *)
(* [method, path, authorization, host]; the two headers are Options.       *)
(***************************************************************************)
Bearer == <<"B", "e", "a", "r", "e", "r", " ">>
\* the header values of the exploration: the passphrase handle_request
\* expects (the empty one) after "Bearer ", another passphrase, no space
\* after the scheme, and another scheme
BearerEmpty == Bearer
BearerWrong == Bearer \o <<"x">>
BearerNoSpace == <<"B", "e", "a", "r", "e", "r">>
BasicEmpty == <<"B", "a", "s", "i", "c", " ">>
Authorizations == {{}, {BearerEmpty}, {BearerWrong}, {BearerNoSpace}, {BasicEmpty}}

\* front.reconciliation of the manifest, as main hands it to the load balancer
ReconciliationPath == <<"/", "r">>
CertificatesPath == <<"/", "c", "e", "r", "t", "i", "f", "i", "c", "a", "t", "e", "s">>
\* the passphrase handle_request passes to check_for_admin_commands
AdminPassphrase == <<>>

Methods == {"GET", "PUT"}
RequestPaths == {ReconciliationPath, CertificatesPath, ApiHealth, Health}
Requests ==
    [method : Methods, path : RequestPaths, authorization : Authorizations,
     host : {{}, {"example.com"}, {"other.org"}}]

IsAdminRequestAuthorised_AnyBearer(request, passphrase) ==
    /\ request.authorization # {}
    /\ StripPrefix(CHOOSE h \in request.authorization : TRUE, Bearer) # {}

\* is_admin_request_authorised
is_admin_request_authorised(request, passphrase) ==
    /\ request.authorization # {}
    /\ StripPrefix(CHOOSE h \in request.authorization : TRUE, Bearer) = {passphrase}

CheckForAdminCommands_AnyMethod(request, reconciliation_path, passphrase) ==
    IF request.path = reconciliation_path
    THEN IF ~is_admin_request_authorised(request, passphrase)
         THEN "forbidden" ELSE "reconciliation"
    ELSE IF request.path = CertificatesPath
         THEN IF ~is_admin_request_authorised(request, passphrase)
              THEN "forbidden" ELSE "certificates"
    ELSE "none"

\* check_for_admin_commands: which admin command the request is, if any, and
\* whether it is let through: "none", "forbidden", "reconciliation" or
\* "certificates"
check_for_admin_commands(request, reconciliation_path, passphrase) ==
    IF request.method # "PUT" THEN "none"
    ELSE IF request.path = reconciliation_path
         THEN IF ~is_admin_request_authorised(request, passphrase)
              THEN "forbidden" ELSE "reconciliation"
    ELSE IF request.path = CertificatesPath
         THEN IF ~is_admin_request_authorised(request, passphrase)
              THEN "forbidden" ELSE "certificates"
    ELSE "none"

\* handle_request after check_for_admin_commands returned None: the answers
\* the routing can give.  next % downstreams.len() panics on an empty set.
RouteRequest(defs, conts, request) ==
    IF request.host = {} THEN {[status |-> "Err", to |-> {}]}
    ELSE UNION {
        IF r.result.kind = "None" THEN {[status |-> "404", to |-> {}]}
        ELSE IF Len(r.result.downstreams) = 0 THEN {[status |-> "panic", to |-> {}]}
        ELSE {[status |-> "upstream", to |-> {d.addr}] : d \in Range(r.result.downstreams)} :
            r \in find_downstreams(defs, conts, CHOOSE h \in request.host : TRUE,
                                   request.path)}

NoResponse == [status |-> "none", to |-> {}]

\* the answer handle_request gave: its status, the address the request was
\* forwarded to if it was, and the method of the request it answers
Answer(request, status, to) == [status |-> status, to |-> to, method |-> request.method]

\* handle_request, one request served from its arrival to its answer; the
\* registry is read under one acquisition of the read lock
HandleRequest(request) ==
    /\ process = "running"
    /\ LET admin == check_for_admin_commands(request, ReconciliationPath, AdminPassphrase)
       IN CASE admin = "forbidden" ->
                 /\ response' = Answer(request, "403", {})
                 /\ UNCHANGED busVars
            [] admin = "reconciliation" ->
                 /\ nextUuid <= MaxMessages
                 /\ reconciliation' = ChannelSend(reconciliation, nextUuid)
                 /\ traffic' = Sent(traffic, "reconciliation", nextUuid)
                 /\ nextUuid' = nextUuid + 1
                 /\ response' = Answer(request, "200", {})
                 /\ UNCHANGED resolver
            [] admin = "certificates" ->
                 /\ nextUuid <= MaxMessages
                 /\ resolver' = ChannelSend(resolver, nextUuid)
                 /\ traffic' = Sent(traffic, "resolver", nextUuid)
                 /\ nextUuid' = nextUuid + 1
                 /\ response' = Answer(request, "200", {})
                 /\ UNCHANGED reconciliation
            [] OTHER ->
                 /\ \E r \in RouteRequest(definitions, containers, request) :
                      response' = Answer(request, r.status, r.to)
                 /\ UNCHANGED busVars
    /\ UNCHANGED <<registryVars, reconcilerVars, tlsVars, apartVars>>

(***************************************************************************)
(* The read path of handle_request, step by step, for the connection       *)
(* tasks the load balancer spawns: the read guard of the registry is taken *)
(* before find_downstreams and dropped after a downstream is chosen, and   *)
(* the choice locks the Mutex of the random generator in between.  The     *)
(* tasks run on the threads of the runtime: one task can be inside the     *)
(* block that holds the generator while another reaches rng.lock().await.  *)
(***************************************************************************)
\* the connection tasks are 1..MaxHandlers
MaxHandlers == 2

Handlers == 1..MaxHandlers

\* no guard of the registry lock is held
NoGuards == [readers |-> {}, writer |-> FALSE]

\* a connection task between two requests
Idle == [pc |-> "idle"]

\* a connection task in handle_request on request, holding the read guard
\* and the downstreams find_downstreams returned
Serving(pc_, request, downstreams) ==
    [pc |-> pc_, request |-> request, downstreams |-> downstreams]

\* requests for a service, one per host
ReadPathRequests ==
    {[method |-> "GET", path |-> Health, authorization |-> {}, host |-> {h}] : h \in Hosts}

\* handle_request from service_registry.read().await to rng.lock().await:
\* the read guard is granted when no writer holds the lock; without
\* downstreams 404 is returned, which drops the guard; otherwise the Mutex is
\* locked at once when it is free, and the task is suspended on it, holding
\* the read guard, when another task holds it
ReadLock(h, request) ==
    /\ process = "running"
    /\ handlers[h] = Idle
    /\ check_for_admin_commands(request, ReconciliationPath, AdminPassphrase) = "none"
    /\ request.host # {}
    /\ ~registry_lock.writer
    /\ \E r \in find_downstreams(definitions, containers, CHOOSE host \in request.host : TRUE,
                                 request.path) :
          IF r.result.kind = "None"
          THEN /\ response' = Answer(request, "404", {})
               /\ UNCHANGED lockVars
          ELSE /\ registry_lock' = [registry_lock EXCEPT !.readers = @ \cup {h}]
               /\ IF rng = {}
                  THEN /\ rng' = {h}
                       /\ handlers' = [handlers EXCEPT
                                          ![h] = Serving("choosing", request, r.result.downstreams)]
                  ELSE /\ rng' = rng
                       /\ handlers' = [handlers EXCEPT
                                          ![h] = Serving("rng_lock", request, r.result.downstreams)]
               /\ response' = NoResponse
    /\ UNCHANGED <<registryVars, busVars, reconcilerVars, tlsVars, unsealVars, healthVars>>

\* rng.lock().await is woken: the Mutex was released and is granted
RngLock(h) ==
    /\ process = "running"
    /\ handlers[h].pc = "rng_lock"
    /\ rng = {}
    /\ rng' = {h}
    /\ handlers' = [handlers EXCEPT ![h].pc = "choosing"]
    /\ UNCHANGED <<registryVars, busVars, reconcilerVars, tlsVars, unsealVars, healthVars,
                   registry_lock, response>>

\* the block that chooses the downstream, drop(read_lock), and the request
\* sent upstream: next % downstreams.len() panics on an empty set, and the
\* unwinding drops both guards
Choose(h) ==
    /\ process = "running"
    /\ handlers[h].pc = "choosing"
    /\ rng' = {}
    /\ registry_lock' = [registry_lock EXCEPT !.readers = @ \ {h}]
    /\ handlers' = [handlers EXCEPT ![h] = Idle]
    /\ IF Len(handlers[h].downstreams) = 0
       THEN response' = Answer(handlers[h].request, "panic", {})
       ELSE \E d \in Range(handlers[h].downstreams) :
               response' = Answer(handlers[h].request, "upstream", {d.addr})
    /\ UNCHANGED <<registryVars, busVars, reconcilerVars, tlsVars, unsealVars, healthVars>>

(***************************************************************************)
(* HealthCheck::run (src/health.rs): a probe is "2xx" (a response with a   *)
(* success status), "other" (another status) or "error" (the request       *)
(* failed).                                                                *)
(***************************************************************************)
\* the largest threshold of the exploration
MaxThreshold == 3

ProbeOutcomes == {"2xx", "other", "error"}

HealthCheckConfigurations ==
    [success_threshold : 0..MaxThreshold, failure_threshold : 0..MaxThreshold]

CountsConsecutively(counter, same) == IF same THEN counter + 1 ELSE 0

\* `successes += 1` / `failures += 1`: the counter of the outcome grows, the
\* other one is left as it is
Counts(counter, same) == IF same THEN counter + 1 ELSE counter

\* one iteration of the loop of run: the sleep of one period, the probe, the
\* counters and the two comparisons, successes first
Probe(outcome) ==
    /\ health = "probing"
    /\ LET s == Counts(successes, outcome = "2xx")
           f == Counts(failures, outcome # "2xx")
       IN /\ successes' = s
          /\ failures' = f
          /\ health' = IF s >= thresholds.success_threshold THEN "Success"
                        ELSE IF f >= thresholds.failure_threshold THEN "Failure"
                        ELSE "probing"
    /\ outcomes' = Append(outcomes, outcome)
    /\ UNCHANGED <<registryVars, busVars, response, reconcilerVars, tlsVars, unsealVars,
                   lockVars, thresholds>>

(***************************************************************************)
(* The manifest (src/config.rs) and the container engine                   *)
(* (src/docker/client.rs).                                                 *)
(***************************************************************************)
\* config::ReplicaCount: a count of at least 1 (replicas.get() in
\* start_multiple_containers); the counts of the exploration
ReplicaCounts == {1, 2}

\* the services a manifest of the exploration declares
ManifestServices ==
    {s \in [image : {"org/app"}, tag : {"1", "2"}, port : {80}, replicas : ReplicaCounts,
            host : {"example.com"}, path_prefix : {{}}, shutdown_mode : ShutdownModes] :
        \/ s.tag = "1" /\ s.shutdown_mode = "Forceful"
        \/ s.tag = "2" /\ s.replicas = 2 /\ s.shutdown_mode = "Graceful"}

\* Config.services of every manifest of the exploration
Manifests == UNION {[D -> ManifestServices] : D \in SUBSET Names}

\* format!("{image}:{tag}")
ImageRef(service) == <<service.image, service.tag>>

Alteration(name, old, new) ==
    [kind |-> "Alteration", name |-> name, old_definition |-> old, new_definition |-> new]
Addition(name, definition) ==
    [kind |-> "Addition", name |-> name, definition |-> definition]
Removal(name) == [kind |-> "Removal", name |-> name]
NoChange == [kind |-> "None", name |-> ""]

DiffOfLeft_ComparesTags(left, right) ==
    {Alteration(n, left[n], right[n]) :
        n \in {m \in DOMAIN left \cap DOMAIN right : left[m].tag # right[m].tag}}
    \cup {Removal(n) : n \in DOMAIN left \ DOMAIN right}

\* Config::diff, first loop: the services of the left manifest
DiffOfLeft(left, right) ==
    {Alteration(n, left[n], right[n]) :
        n \in {m \in DOMAIN left \cap DOMAIN right : left[m] # right[m]}}
    \cup {Removal(n) : n \in DOMAIN left \ DOMAIN right}

\* Config::diff, second loop: the services only the right manifest has
DiffOfRight(left, right) ==
    {Addition(n, right[n]) : n \in DOMAIN right \ DOMAIN left}

Diff_SomeOfEmpty(left, right) ==
    {a \o b : a \in Orderings(DiffOfLeft(left, right)),
               b \in Orderings(DiffOfRight(left, right))}

\* Config::diff: the vectors it can return (each loop follows the iteration
\* order of a HashMap); None, for an empty vector, is {}
Diff(left, right) ==
    IF DiffOfLeft(left, right) \cup DiffOfRight(left, right) = {} THEN {}
    ELSE {a \o b : a \in Orderings(DiffOfLeft(left, right)),
                   b \in Orderings(DiffOfRight(left, right))}

\* the address the engine gives container id on the network: 10.0.0.id
Ip(id) == id

\* POST /containers/create
EngineCreate(eng, id, image) == MapInsert(eng, id, [image |-> image, status |-> "created"])
\* POST /containers/{id}/start
EngineStart(eng, id) == [eng EXCEPT ![id].status = "running"]
\* POST /containers/{id}/stop?signal=SIGTERM&t=15: the container stays, exited
EngineStop(eng, id) ==
    IF id \in DOMAIN eng THEN [eng EXCEPT ![id].status = "exited"] ELSE eng
\* DELETE /containers/{id}?force=true
EngineRemove(eng, id) == MapRemove(eng, id)

\* an entry of the log: a call the engine received and whether it succeeded,
\* or a write of the registry
Call(op, id, image, ok) == [op |-> op, id |-> id, image |-> image, ok |-> ok]

(***************************************************************************)
(* Start-up (src/main.rs): start_services, all engine calls succeeding.    *)
(***************************************************************************)
NameOrder == <<"backend", "frontend">>

RECURSIVE StartServices(_, _, _)
\* start_services over the services in the order names: define, then create
\* and start replicas containers and add each to the registry
StartServices(services, names, st) ==
    IF names = <<>> THEN st
    ELSE IF Head(names) \notin DOMAIN services
    THEN StartServices(services, Tail(names), st)
    ELSE LET n == Head(names)
             s == services[n]
             ids == st.nextId .. (st.nextId + s.replicas - 1)
         IN StartServices(services, Tail(names),
              [definitions |-> RegDefine(st.definitions, n, s),
               containers |-> MapInsert(st.containers, n,
                   [i \in 1..s.replicas |-> Details(st.nextId + i - 1, Ip(st.nextId + i - 1))]),
               engine |-> [id \in DOMAIN st.engine \cup ids |->
                              IF id \in ids THEN [image |-> ImageRef(s), status |-> "running"]
                              ELSE st.engine[id]],
               images |-> st.images \cup {ImageRef(s)},
               nextId |-> st.nextId + s.replicas])

EmptyMap == [x \in {} |-> x]
Started(services) ==
    StartServices(services, NameOrder,
        [definitions |-> EmptyMap, containers |-> EmptyMap, engine |-> EmptyMap,
         images |-> {}, nextId |-> 1])

(***************************************************************************)
(* TLS (src/load_balancer/tls.rs): the certificate resolver, whose map a   *)
(* background task rebuilds on every certificate_update message, and the   *)
(* resolver of the authentication level, which reads the manifest handle.  *)
(***************************************************************************)
\* alb.tls.domains: the domains the resolver is configured with
ConfiguredDomains == {"primary.example.com", "secondary.example.com"}

\* what the files of a domain hold: one of two certificates with its key, or
\* material that cannot be read or parsed
Materials == {"old", "new", "bad"}

\* the names a client hello can carry
ServerNames == ConfiguredDomains \cup {"example.org"}

\* secrets.resolve_files().await? and parse_certified_key(&cert, &key)?: the
\* certificate as Ok({certificate}), or Err as {}
ParseCertifiedKey(material) == IF material = "bad" THEN {} ELSE {material}

\* domains.insert(domain.to_owned(), Arc::new(certified_key))
InsertDomain(map, domain, certificate) == MapInsert(map, domain, certificate)

\* the entries of built laid over those of live
Overlay(live, built) ==
    [d \in DOMAIN live \cup DOMAIN built |-> IF d \in DOMAIN built THEN built[d] ELSE live[d]]

Unfinished_PublishesEachDomain(live, built) == Overlay(live, built)

\* resolve_and_parse_certificates between two domains: the map it builds is a
\* local, the map of the resolver is not written
Unfinished(live, built) == live

Rejected_KeepsTheParsed(live, built) == Overlay(live, built)

\* poll_for_certificate_updates, Err arm: the error is logged, nothing stored
Rejected(live, built) == live

Stored_KeepsTheOldMap(live, built) == live

\* poll_for_certificate_updates, Ok arm: domains.store(Arc::new(new_domains))
Stored(live, built) == built

\* CertificateResolver::resolve: client_hello.server_name()? and
\* domains.load().get(server_name).cloned()
ResolveCertificate(map, server_name) ==
    IF server_name = {} THEN {}
    ELSE LET name == CHOOSE n \in server_name : TRUE
         IN IF name \in DOMAIN map THEN {map[name]} ELSE {}

NoHello == [called |-> FALSE]
NoUpdate == [outcome |-> "none"]

\* alb.mtls of a manifest: None, or the domains of Some(MtlsConfig)
MtlsConfigs == {{}} \cup {{D} : D \in SUBSET ServerNames}

ResolveLevel_MutualWheneverConfigured(section, client_hello) ==
    IF section = {} THEN "Standard" ELSE "Mutual"

\* DynamicAuthenticationLevelResolver::resolve on the mtls section loaded
\* from the handle
ResolveLevel(section, client_hello) ==
    IF section = {} THEN "Standard"
    ELSE IF client_hello \in (CHOOSE D \in section : TRUE) THEN "Mutual"
    ELSE "Standard"

NoLevel == [called |-> FALSE]

\* everything the TLS actions leave alone
beyondTls == <<registryVars, reconciliation, nextUuid, response, reconcilerVars, apartVars>>

\* the operator replaces the files of a domain (the tests copy new.crt and
\* new.key over the staged paths)
Stage(domain, material) ==
    /\ process = "running"
    /\ staged[domain] # material
    /\ staged' = [staged EXCEPT ![domain] = material]
    /\ hello' = NoHello /\ level' = NoLevel
    /\ UNCHANGED <<beyondTls, resolver, traffic, domains, building, todo, certPc, lastUpdate, mtls,
                   updates>>

\* poll_for_certificate_updates: receive_certificate_update_request().await
\* yields a message; resolve_and_parse_certificates starts on an empty map and
\* will follow the iteration order of the Configuration
PollReceive ==
    /\ process = "running" /\ certPc = "receive"
    /\ resolver # <<>>
    /\ resolver' = ChannelReceive(resolver).rest
    /\ traffic' = Received(traffic, "resolver", ChannelReceive(resolver).message)
    /\ building' = EmptyMap
    /\ todo' \in Orderings(ConfiguredDomains)
    /\ certPc' = "resolve"
    /\ lastUpdate' = [outcome |-> "running", before |-> domains]
    /\ hello' = NoHello /\ level' = NoLevel
    /\ UNCHANGED <<beyondTls, staged, domains, mtls, updates>>

AfterRejected_Stops == "stopped"

\* poll_for_certificate_updates, the Err arm: the error is logged and the
\* loop goes on to the next receive
AfterRejected == "receive"

\* resolve_and_parse_certificates, one iteration: the files of the next
\* domain are read and parsed.  An error leaves the function and takes the
\* Err arm of poll_for_certificate_updates; the last domain parsed returns
\* the map, which the Ok arm stores
ResolveDomain ==
    /\ process = "running" /\ certPc = "resolve"
    /\ LET domain == Head(todo)
           parsed == ParseCertifiedKey(staged[domain])
       IN IF parsed = {}
          THEN /\ domains' = Rejected(domains, building)
               /\ lastUpdate' = [outcome |-> "rejected", before |-> lastUpdate.before,
                                 parsed |-> building]
               /\ updates' = Append(updates, "rejected")
               /\ building' = EmptyMap /\ todo' = <<>> /\ certPc' = AfterRejected
          ELSE LET built == InsertDomain(building, domain, CHOOSE c \in parsed : TRUE)
               IN IF Tail(todo) = <<>>
                  THEN /\ domains' = Stored(domains, built)
                       /\ lastUpdate' = [outcome |-> "stored", before |-> lastUpdate.before,
                                         parsed |-> built]
                       /\ updates' = Append(updates, "stored")
                       /\ building' = EmptyMap /\ todo' = <<>> /\ certPc' = "receive"
                  ELSE /\ domains' = Unfinished(domains, built)
                       /\ building' = built /\ todo' = Tail(todo)
                       /\ UNCHANGED <<certPc, lastUpdate, updates>>
    /\ hello' = NoHello /\ level' = NoLevel
    /\ UNCHANGED <<beyondTls, resolver, traffic, staged, mtls>>

\* CertificateResolver::resolve for one client hello
Handshake(server_name) ==
    /\ process = "running"
    /\ hello' = [called |-> TRUE, server_name |-> server_name,
                 certificate |-> ResolveCertificate(domains, server_name)]
    /\ level' = NoLevel
    /\ UNCHANGED <<beyondTls, resolver, traffic, staged, domains, building, todo, certPc,
                   lastUpdate, mtls, updates>>

\* self.config.store(Arc::new(new_config)) seen from the TLS side: the
\* manifest in the handle is replaced by one with this mtls section
StoreConfig(section) ==
    /\ process = "running"
    /\ mtls # section
    /\ mtls' = section
    /\ hello' = NoHello /\ level' = NoLevel
    /\ UNCHANGED <<beyondTls, resolver, traffic, staged, domains, building, todo, certPc, lastUpdate,
                   updates>>

\* DynamicAuthenticationLevelResolver::resolve for one client hello
AuthenticationLevel(client_hello) ==
    /\ process = "running"
    /\ level' = [called |-> TRUE, client_hello |-> client_hello,
                 level |-> ResolveLevel(mtls, client_hello)]
    /\ hello' = NoHello
    /\ UNCHANGED <<beyondTls, resolver, traffic, staged, domains, building, todo, certPc,
                   lastUpdate, mtls, updates>>

(***************************************************************************)
(* Initial states.                                                         *)
(***************************************************************************)
NoPre == [taken |-> FALSE]

InitBus == reconciliation = <<>> /\ resolver = <<>> /\ nextUuid = 1 /\ traffic = NoTraffic

\* no file is being mounted
InitUnseal == content = <<>> /\ private_key = {} /\ decrypted = NoCall

\* no request is being served
InitLocks == registry_lock = NoGuards /\ handlers = [h \in Handlers |-> Idle] /\ rng = {}

\* HealthCheck::run has been called and has not probed yet
InitRun == successes = 0 /\ failures = 0 /\ outcomes = <<>> /\ health = "probing"

\* a health check of one success and one failure
InitHealth ==
    /\ thresholds = [success_threshold |-> 1, failure_threshold |-> 1]
    /\ InitRun

\* neither decrypt_content, nor the read path step by step, nor a health
\* check is exercised
InitApart == InitUnseal /\ InitLocks /\ InitHealth

\* CertificateResolver::new: the map holds what the files of every domain
\* parse to; the manifest of the exploration has no mtls section at first
InitTls ==
    /\ staged = [d \in ConfiguredDomains |-> "old"]
    /\ domains = [d \in ConfiguredDomains |-> CHOOSE c \in ParseCertifiedKey("old") : TRUE]
    /\ building = EmptyMap /\ todo = <<>> /\ certPc = "receive"
    /\ hello = NoHello /\ lastUpdate = NoUpdate
    /\ mtls = {} /\ level = NoLevel /\ updates = <<>>

InitChange ==
    /\ pending = <<>> /\ cur = NoChange /\ running = <<>> /\ started = <<>>
    /\ fresh = {} /\ idx = 1 /\ result = "pending" /\ log = <<>> /\ pre = NoPre

\* ServiceRegistry::new() and a manifest without services
InitIdle ==
    /\ definitions = EmptyMap /\ containers = EmptyMap /\ found = NoCall
    /\ InitBus /\ response = NoResponse
    /\ config = EmptyMap /\ engine = EmptyMap /\ images = {} /\ nextId = 1
    /\ pc = "receive" /\ InitChange /\ process = "running"
    /\ InitTls

\* ServiceRegistry::new(), nothing else running
InitRegistry == InitIdle /\ InitApart

\* main, once start_services has returned and the tasks are about to be joined
Init ==
    /\ \E m \in Manifests :
         /\ config = m
         /\ definitions = Started(m).definitions
         /\ containers = Started(m).containers
         /\ engine = Started(m).engine
         /\ images = Started(m).images
         /\ nextId = Started(m).nextId
    /\ found = NoCall /\ InitBus /\ response = NoResponse
    /\ pc = "receive" /\ InitChange /\ process = "running"
    /\ InitTls /\ InitApart

(***************************************************************************)
(* The reconciler (src/reconciler.rs).  One action is one stretch of the   *)
(* task between two suspension points that other tasks can observe: a      *)
(* section under the registry lock is one action, and so is one call of    *)
(* the container engine.  Every engine call can fail.                      *)
(***************************************************************************)
\* the definition whose containers the change starts
NewDefinition(change) ==
    IF change.kind = "Alteration" THEN change.new_definition ELSE change.definition

AddContainers_AddsTheFirst(conts, name, details) ==
    IF details = <<>> THEN conts ELSE RegAddContainer(conts, name, Head(details))

RECURSIVE AddContainers(_, _, _)
\* started_containers.into_iter().for_each(|details| add_container(name, details))
AddContainers(conts, name, details) ==
    IF details = <<>> THEN conts
    ELSE AddContainers(RegAddContainer(conts, name, Head(details)), name, Tail(details))

RemoveContainersById_KeepsAll(conts, name, details) == conts

RECURSIVE RemoveContainersById(_, _, _)
\* for details in &running_containers { remove_container_by_id(name, &details.id) }
RemoveContainersById(conts, name, details) ==
    IF details = <<>> THEN conts
    ELSE RemoveContainersById(RegRemoveContainerById(conts, name, Head(details).id),
                              name, Tail(details))

RetireCall_ByTheNewDefinition(change) ==
    IF change.kind = "Alteration" /\ change.new_definition.shutdown_mode = "Graceful"
    THEN "stop" ELSE "remove"

\* the engine call that retires a container of the change: handle_removal
\* removes; handle_alteration follows the shutdown mode of the old definition
RetireCall(change) ==
    IF change.kind = "Alteration" /\ change.old_definition.shutdown_mode = "Graceful"
    THEN "stop" ELSE "remove"

\* a handler returned: its result is held until handle_diff's caller resumes
Returns(res) == result' = res /\ pc' = "returned"

\* Reconciler::run: receive_reconciliation_request().await yields a message
Receive_Coalesces ==
    /\ process = "running" /\ pc = "receive"
    /\ reconciliation # <<>>
    /\ reconciliation' = <<>>
    /\ traffic' = Received(traffic, "reconciliation", ChannelReceive(reconciliation).message)
    /\ pc' = "reconcile"
    /\ response' = NoResponse
    /\ UNCHANGED <<tlsVars, apartVars>>
    /\ UNCHANGED <<registryVars, resolver, nextUuid, config, engine, images, nextId,
                   changeVars, process>>

\* Reconciler::run: receive_reconciliation_request().await yields a message
Receive ==
    /\ process = "running" /\ pc = "receive"
    /\ reconciliation # <<>>
    /\ reconciliation' = ChannelReceive(reconciliation).rest
    /\ traffic' = Received(traffic, "reconciliation", ChannelReceive(reconciliation).message)
    /\ pc' = "reconcile"
    /\ response' = NoResponse
    /\ UNCHANGED <<tlsVars, apartVars>>
    /\ UNCHANGED <<registryVars, resolver, nextUuid, config, engine, images, nextId,
                   changeVars, process>>

ReconcileFetchFails_ClearsTheHandle ==
    /\ process = "running" /\ pc = "reconcile"
    /\ config' = EmptyMap
    /\ pc' = "stopped"
    /\ process' = "reconciler_error"
    /\ response' = NoResponse
    /\ UNCHANGED <<tlsVars, apartVars>>
    /\ UNCHANGED <<registryVars, busVars, engine, images, nextId, changeVars>>

\* Reconciler::reconcile: Config::from_location fails (fetch or parse); the
\* error leaves reconcile and run through `?`, and main through try_join!
ReconcileFetchFails ==
    /\ process = "running" /\ pc = "reconcile"
    /\ pc' = "stopped"
    /\ process' = "reconciler_error"
    /\ response' = NoResponse
    /\ UNCHANGED <<tlsVars, apartVars>>
    /\ UNCHANGED <<registryVars, busVars, config, engine, images, nextId, changeVars>>

Reconcile_KeepsTheHandle(new) ==
    /\ process = "running" /\ pc = "reconcile"
    /\ IF Diff(config, new) = {}
       THEN /\ pc' = "receive"
            /\ UNCHANGED pending
       ELSE /\ pending' \in Diff(config, new)
            /\ pc' = "dispatch"
    /\ response' = NoResponse
    /\ UNCHANGED <<tlsVars, apartVars>>
    /\ UNCHANGED <<registryVars, busVars, config, engine, images, nextId, cur, running,
                   started, fresh, idx, result, log, pre, process>>

\* Reconciler::reconcile: the manifest loads as new; the handle is swapped
\* when the diff is not empty
Reconcile(new) ==
    /\ process = "running" /\ pc = "reconcile"
    /\ IF Diff(config, new) = {}
       THEN /\ pc' = "receive"
            /\ UNCHANGED <<config, pending>>
       ELSE /\ config' = new
            /\ pending' \in Diff(config, new)
            /\ pc' = "dispatch"
    /\ response' = NoResponse
    /\ UNCHANGED <<tlsVars, apartVars>>
    /\ UNCHANGED <<registryVars, busVars, engine, images, nextId, cur, running,
                   started, fresh, idx, result, log, pre, process>>

\* handle_diff on the next change of the diff, up to the first engine call or
\* registry write: handle_alteration and handle_removal read the running
\* containers under the read lock
Dispatch ==
    /\ process = "running" /\ pc = "dispatch"
    /\ pending # <<>>
    /\ ~registry_lock.writer
    /\ LET change == Head(pending)
           got == GetRunningContainers(containers, change.name)
       IN /\ cur' = change
          /\ pending' = Tail(pending)
          /\ pre' = [taken |-> TRUE, definitions |-> definitions,
                     containers |-> containers, engine |-> engine]
          /\ log' = <<>> /\ started' = <<>> /\ fresh' = {} /\ idx' = 1
          /\ CASE change.kind = "Alteration" ->
                    IF got = {}
                    THEN running' = <<>> /\ Returns("err")
                    ELSE /\ running' = (CHOOSE r \in got : TRUE)
                         /\ result' = "pending" /\ pc' = "private_key"
               [] change.kind = "Addition" ->
                    running' = <<>> /\ result' = "pending" /\ pc' = "private_key"
               [] change.kind = "Removal" ->
                    IF got = {}
                    THEN running' = <<>> /\ Returns("ok")
                    ELSE /\ running' = (CHOOSE r \in got : TRUE)
                         /\ result' = "pending" /\ pc' = "undefine"
    /\ response' = NoResponse
    /\ UNCHANGED <<tlsVars, apartVars>>
    /\ UNCHANGED <<registryVars, busVars, config, engine, images, nextId, process>>

\* start_multiple_containers: self.config.load().get_private_key()
PrivateKey(ok) ==
    /\ process = "running" /\ pc = "private_key"
    /\ IF ok THEN pc' = "create" /\ UNCHANGED result ELSE Returns("err")
    /\ response' = NoResponse
    /\ UNCHANGED <<tlsVars, apartVars>>
    /\ UNCHANGED <<registryVars, busVars, config, engine, images, nextId, pending, cur,
                   running, started, fresh, idx, log, pre, process>>

\* create_and_start_container up to create_container: the image is pulled
\* when it is not held locally, then the network is looked up, the
\* environment and the volumes are unsealed and the container is created.
\* outcome: "no_image" (listing or pulling the image fails), "not_created" (a
\* later step fails) or "created"
Create(outcome) ==
    /\ process = "running" /\ pc = "create"
    /\ LET image == ImageRef(NewDefinition(cur))
       IN CASE outcome = "no_image" ->
                 /\ Returns("err")
                 /\ UNCHANGED <<engine, images, nextId, fresh, log>>
            [] outcome = "not_created" ->
                 /\ images' = images \cup {image}
                 /\ Returns("err")
                 /\ UNCHANGED <<engine, nextId, fresh, log>>
            [] outcome = "created" ->
                 /\ nextId <= MaxIds
                 /\ images' = images \cup {image}
                 /\ engine' = EngineCreate(engine, nextId, image)
                 /\ fresh' = {nextId}
                 /\ nextId' = nextId + 1
                 /\ log' = Append(log, Call("create", nextId, image, TRUE))
                 /\ pc' = "start"
                 /\ UNCHANGED result
    /\ response' = NoResponse
    /\ UNCHANGED <<tlsVars, apartVars>>
    /\ UNCHANGED <<registryVars, busVars, config, pending, cur, running, started, idx,
                   pre, process>>

\* create_and_start_container: client.start_container(&id)
Start(ok) ==
    /\ process = "running" /\ pc = "start"
    /\ LET id == CHOOSE i \in fresh : TRUE
       IN IF ok
          THEN /\ engine' = EngineStart(engine, id)
               /\ log' = Append(log, Call("start", id, engine[id].image, TRUE))
               /\ pc' = "ip"
               /\ UNCHANGED result
          ELSE /\ log' = Append(log, Call("start", id, engine[id].image, FALSE))
               /\ Returns("err")
               /\ UNCHANGED engine
    /\ response' = NoResponse
    /\ UNCHANGED <<tlsVars, apartVars>>
    /\ UNCHANGED <<registryVars, busVars, config, images, nextId, pending, cur, running,
                   started, fresh, idx, pre, process>>

\* create_and_start_container: client.get_container_ip(&id), and the push of
\* the details in start_multiple_containers
GetIp(ok) ==
    /\ process = "running" /\ pc = "ip"
    /\ LET id == CHOOSE i \in fresh : TRUE
       IN IF ok
          THEN /\ started' = Append(started, Details(id, Ip(id)))
               /\ fresh' = {}
               /\ log' = Append(log, Call("ip", id, engine[id].image, TRUE))
               /\ pc' = IF Len(started) + 1 = NewDefinition(cur).replicas
                        THEN "register" ELSE "create"
               /\ UNCHANGED result
          ELSE /\ log' = Append(log, Call("ip", id, engine[id].image, FALSE))
               /\ Returns("err")
               /\ UNCHANGED <<started, fresh>>
    /\ response' = NoResponse
    /\ UNCHANGED <<tlsVars, apartVars>>
    /\ UNCHANGED <<registryVars, busVars, config, engine, images, nextId, pending, cur,
                   running, idx, pre, process>>

Register_RetiresBeforeUnregistering ==
    /\ process = "running" /\ pc = "register"
    /\ registry_lock = NoGuards
    /\ definitions' = RegDefine(definitions, cur.name, NewDefinition(cur))
    /\ containers' = AddContainers(containers, cur.name, started)
    /\ log' = Append(log, Call("register", 0, <<>>, TRUE))
    /\ IF cur.kind = "Alteration"
       THEN pc' = "retire" /\ UNCHANGED result
       ELSE Returns("ok")
    /\ response' = NoResponse
    /\ UNCHANGED <<tlsVars, apartVars>>
    /\ UNCHANGED <<found, busVars, config, engine, images, nextId, pending, cur, running,
                   started, fresh, idx, pre, process>>

\* start_multiple_containers under the write lock: define, then add every
\* started container
Register ==
    /\ process = "running" /\ pc = "register"
    /\ registry_lock = NoGuards
    /\ definitions' = RegDefine(definitions, cur.name, NewDefinition(cur))
    /\ containers' = AddContainers(containers, cur.name, started)
    /\ log' = Append(log, Call("register", 0, <<>>, TRUE))
    /\ IF cur.kind = "Alteration"
       THEN pc' = "unregister" /\ UNCHANGED result
       ELSE Returns("ok")
    /\ response' = NoResponse
    /\ UNCHANGED <<tlsVars, apartVars>>
    /\ UNCHANGED <<found, busVars, config, engine, images, nextId, pending, cur, running,
                   started, fresh, idx, pre, process>>

Unregister_HoldsTheGuard ==
    /\ process = "running" /\ pc = "unregister"
    /\ registry_lock = NoGuards
    /\ registry_lock' = [registry_lock EXCEPT !.writer = TRUE]
    /\ containers' = RemoveContainersById(containers, cur.name, running)
    /\ log' = Append(log, Call("unregister", 0, <<>>, TRUE))
    /\ IF running = <<>> THEN Returns("ok") ELSE pc' = "retire" /\ UNCHANGED result
    /\ response' = NoResponse
    /\ UNCHANGED <<tlsVars, unsealVars, healthVars, handlers, rng>>
    /\ UNCHANGED <<definitions, found, busVars, config, engine, images, nextId, pending,
                   cur, running, started, fresh, idx, pre, process>>

\* handle_alteration: write().await is granted when no guard is held; the old
\* containers leave the registry and drop(write_lock) releases the guard,
\* with no suspension in between
Unregister ==
    /\ process = "running" /\ pc = "unregister"
    /\ registry_lock = NoGuards
    /\ containers' = RemoveContainersById(containers, cur.name, running)
    /\ log' = Append(log, Call("unregister", 0, <<>>, TRUE))
    /\ IF running = <<>> THEN Returns("ok") ELSE pc' = "retire" /\ UNCHANGED result
    /\ response' = NoResponse
    /\ UNCHANGED <<tlsVars, apartVars>>
    /\ UNCHANGED <<definitions, found, busVars, config, engine, images, nextId, pending,
                   cur, running, started, fresh, idx, pre, process>>

\* handle_removal under the write lock: undefine and remove_all_containers
UndefineRemoved ==
    /\ process = "running" /\ pc = "undefine"
    /\ registry_lock = NoGuards
    /\ definitions' = RegUndefine(definitions, cur.name)
    /\ containers' = RegRemoveAllContainers(containers, cur.name)
    /\ log' = Append(log, Call("undefine", 0, <<>>, TRUE))
    /\ IF running = <<>> THEN Returns("ok") ELSE pc' = "retire" /\ UNCHANGED result
    /\ response' = NoResponse
    /\ UNCHANGED <<tlsVars, apartVars>>
    /\ UNCHANGED <<found, busVars, config, engine, images, nextId, pending, cur, running,
                   started, fresh, idx, pre, process>>

\* one iteration of the loop over running_containers in handle_alteration
\* (stop_container or remove_container) or handle_removal (remove_container)
Retire(ok) ==
    /\ process = "running" /\ pc = "retire"
    /\ LET id == running[idx].id
       IN IF ok
          THEN /\ engine' = IF RetireCall(cur) = "stop" THEN EngineStop(engine, id)
                            ELSE EngineRemove(engine, id)
               /\ log' = Append(log, Call(RetireCall(cur), id, <<>>, TRUE))
               /\ idx' = idx + 1
               /\ IF idx = Len(running) THEN Returns("ok")
                  ELSE pc' = "retire" /\ UNCHANGED result
          ELSE /\ log' = Append(log, Call(RetireCall(cur), id, <<>>, FALSE))
               /\ Returns("err")
               /\ UNCHANGED <<engine, idx>>
    /\ response' = NoResponse
    /\ UNCHANGED <<tlsVars, apartVars>>
    /\ UNCHANGED <<registryVars, busVars, config, images, nextId, pending, cur, running,
                   started, fresh, pre, process>>

\* handle_diff(event).await? in reconcile and self.reconcile().await? in run:
\* Ok goes on with the next change, or back to receive after the last one; Err
\* leaves reconcile, run and, through try_join!, main
Return ==
    /\ process = "running" /\ pc = "returned"
    /\ IF result = "ok"
       THEN /\ pc' = IF pending = <<>> THEN "receive" ELSE "dispatch"
            /\ cur' = NoChange /\ running' = <<>> /\ started' = <<>> /\ fresh' = {}
            /\ idx' = 1 /\ result' = "pending" /\ log' = <<>> /\ pre' = NoPre
            /\ UNCHANGED process
       ELSE /\ pc' = "stopped"
            /\ process' = "reconciler_error"
            /\ UNCHANGED <<cur, running, started, fresh, idx, result, log, pre>>
    /\ response' = NoResponse
    /\ UNCHANGED <<tlsVars, apartVars>>
    /\ UNCHANGED <<registryVars, busVars, config, engine, images, nextId, pending>>

\* handle_shutdown_signal: SIGINT or SIGTERM makes try_join! return
ShutdownSignal ==
    /\ process = "running"
    /\ process' = "shutdown_signal"
    /\ response' = NoResponse
    /\ UNCHANGED <<tlsVars, apartVars>>
    /\ UNCHANGED <<registryVars, busVars, config, engine, images, nextId, pc, changeVars>>

(***************************************************************************)
(* Specifications.                                                         *)
(***************************************************************************)
\* the requests served beside the reconciler: an authorised trigger of a
\* reconciliation and a request for a service
ReconcilerRequests ==
    {[method |-> "PUT", path |-> ReconciliationPath, authorization |-> {BearerEmpty},
      host |-> {"example.com"}],
     [method |-> "GET", path |-> Health, authorization |-> {}, host |-> {"example.com"}]}

NextReconciler ==
    \/ Receive
    \/ ReconcileFetchFails
    \/ \E new \in Manifests : Reconcile(new)
    \/ Dispatch
    \/ \E ok \in BOOLEAN : PrivateKey(ok)
    \/ \E outcome \in {"no_image", "not_created", "created"} : Create(outcome)
    \/ \E ok \in BOOLEAN : Start(ok)
    \/ \E ok \in BOOLEAN : GetIp(ok)
    \/ Register
    \/ Unregister
    \/ UndefineRemoved
    \/ \E ok \in BOOLEAN : Retire(ok)
    \/ Return
    \/ ShutdownSignal

\* the whole program: the proxy serving requests beside the reconciler
Next ==
    \/ \E request \in ReconcilerRequests : HandleRequest(request)
    \/ NextReconciler

Spec == Init /\ [][Next]_vars

\* the registry alone, any operation on any argument
NextRegistry ==
    \/ \E n \in Names, s \in RouteServices : Define(n, s)
    \/ \E n \in Names : Undefine(n)
    \/ \E n \in Names, d \in RegistryDetails : AddContainer(n, d)
    \/ \E n \in Names : RemoveAllContainers(n)
    \/ \E n \in Names, d \in RegistryDetails : RemoveContainerById(n, d.id)
    \/ \E h \in Hosts, p \in Paths : FindDownstreams(h, p)

SpecRegistry == InitRegistry /\ [][NextRegistry]_vars

\* the proxy alone, any request, over the registry start-up leaves
NextProxy == \E request \in Requests : HandleRequest(request)

SpecProxy == Init /\ [][NextProxy]_vars

\* the paths of the two admin commands
IsAdminPath(request) == request.path \in {ReconciliationPath, CertificatesPath}

\* the proxy serving requests on the two admin paths only, with any method,
\* bearer and host
AdminPathRequests == {request \in Requests : IsAdminPath(request)}

NextAdminPaths == \E request \in AdminPathRequests : HandleRequest(request)

SpecAdminPaths == Init /\ [][NextAdminPaths]_vars

(***************************************************************************)
(* The reconciler under a quiescent manifest: every load of the manifest   *)
(* and every engine call succeeds.  The engine hands out the ids           *)
(* 1..MaxIds, so a manifest is only loaded when the containers its changes *)
(* start fit in the ids that are left.                                     *)
(***************************************************************************)
RECURSIVE SumOver(_, _)
\* the sum of f over the finite set S
SumOver(S, f) ==
    IF S = {} THEN 0
    ELSE LET x == CHOOSE y \in S : TRUE IN f[x] + SumOver(S \ {x}, f)

\* the containers the changes of diff(left, right) start: right's replicas of
\* every service added or altered
IdsNeeded(left, right) ==
    SumOver({n \in DOMAIN right : n \notin DOMAIN left \/ left[n] # right[n]},
            [n \in DOMAIN right |-> right[n].replicas])

ReconcileWithinIds(new) ==
    /\ nextId + IdsNeeded(config, new) - 1 <= MaxIds
    /\ Reconcile(new)

\* the steps of the reconciler task when nothing fails
ReconcilerSucceeds ==
    \/ Receive
    \/ \E new \in Manifests : ReconcileWithinIds(new)
    \/ Dispatch
    \/ PrivateKey(TRUE)
    \/ Create("created")
    \/ Start(TRUE)
    \/ GetIp(TRUE)
    \/ Register
    \/ Unregister
    \/ UndefineRemoved
    \/ Retire(TRUE)
    \/ Return

\* the authorised trigger of a reconciliation
ReconciliationTrigger ==
    [method |-> "PUT", path |-> ReconciliationPath, authorization |-> {BearerEmpty},
     host |-> {"example.com"}]

NextQuiescent ==
    \/ HandleRequest(ReconciliationTrigger)
    \/ ReconcilerSucceeds

\* the runtime polls the reconciler task whenever it can make a step: a
\* message is queued, or the call it awaits has returned
SpecQuiescent == Init /\ [][NextQuiescent]_vars /\ WF_vars(ReconcilerSucceeds)

(***************************************************************************)
(* The certificate resolver beside the proxy, and the resolver of the      *)
(* authentication level.                                                   *)
(***************************************************************************)
\* PUT /certificates with the accepted bearer and with none
CertificateRequests ==
    {[method |-> "PUT", path |-> CertificatesPath, authorization |-> a,
      host |-> {"example.com"}] : a \in {{BearerEmpty}, {}}}

NextCertificates ==
    \/ \E request \in CertificateRequests : HandleRequest(request)
    \/ \E d \in ConfiguredDomains, m \in Materials : Stage(d, m)
    \/ PollReceive
    \/ ResolveDomain
    \/ \E n \in {{}} \cup {{x} : x \in ServerNames} : Handshake(n)

\* the manifest declares no service (as in the tests of tls.rs); the spawned
\* task of poll_for_certificate_updates is polled whenever a message is
\* queued or the read it awaits has returned
SpecCertificates ==
    InitRegistry /\ [][NextCertificates]_vars
        /\ WF_vars(PollReceive) /\ WF_vars(ResolveDomain)

NextAuth ==
    \/ \E section \in MtlsConfigs : StoreConfig(section)
    \/ \E n \in ServerNames : AuthenticationLevel(n)

SpecAuth == Init /\ [][NextAuth]_vars

(***************************************************************************)
(* The reconciler reloading manifests whose alb.mtls section changes       *)
(* beside their services, and handshakes asking for the authentication     *)
(* level.                                                                  *)
(***************************************************************************)
\* alb.mtls of the manifests that are reloaded: None, and Some of two lists
ReloadedSections == {{}, {{"primary.example.com"}}, {ConfiguredDomains}}

\* Reconciler::reconcile on a manifest whose services are new and whose
\* alb.mtls is section: self.config.store(Arc::new(new_config.clone())) is
\* inside `if let Some(diff) = old_config.diff(&new_config)`, and diff
\* compares the services
ReconcileManifest(new, section) ==
    /\ process = "running" /\ pc = "reconcile"
    /\ nextId + IdsNeeded(config, new) - 1 <= MaxIds
    /\ IF Diff(config, new) = {}
       THEN /\ pc' = "receive"
            /\ UNCHANGED <<config, pending, mtls>>
       ELSE /\ config' = new
            /\ mtls' = section
            /\ pending' \in Diff(config, new)
            /\ pc' = "dispatch"
    /\ response' = NoResponse
    /\ hello' = NoHello /\ level' = NoLevel
    /\ UNCHANGED <<staged, domains, building, todo, certPc, lastUpdate, updates, apartVars>>
    /\ UNCHANGED <<registryVars, busVars, engine, images, nextId, cur, running,
                   started, fresh, idx, result, log, pre, process>>

NextMtls ==
    \/ HandleRequest(ReconciliationTrigger)
    \/ Receive
    \/ \E new \in Manifests, section \in ReloadedSections : ReconcileManifest(new, section)
    \/ Dispatch
    \/ PrivateKey(TRUE)
    \/ Create("created")
    \/ Start(TRUE)
    \/ GetIp(TRUE)
    \/ Register
    \/ Unregister
    \/ UndefineRemoved
    \/ Retire(TRUE)
    \/ Return
    \/ \E n \in ServerNames : AuthenticationLevel(n)

SpecMtls == Init /\ [][NextMtls]_vars

(***************************************************************************)
(* The message bus with both of its consumers: the reconciler, reloading   *)
(* an unchanged manifest, and the task of poll_for_certificate_updates.    *)
(***************************************************************************)
\* the two admin commands, with the accepted bearer
BusRequests ==
    {[method |-> "PUT", path |-> p, authorization |-> {BearerEmpty},
      host |-> {"example.com"}] : p \in {ReconciliationPath, CertificatesPath}}

NextBus ==
    \/ \E request \in BusRequests : HandleRequest(request)
    \/ Receive
    \/ Reconcile(config)
    \/ PollReceive
    \/ ResolveDomain

SpecBus == Init /\ [][NextBus]_vars

(***************************************************************************)
(* The proxy routing requests over any registry the registry operations    *)
(* can build.                                                              *)
(***************************************************************************)
\* requests that are no admin command
RoutedRequests ==
    {[method |-> "GET", path |-> p, authorization |-> {}, host |-> {"example.com"}] :
        p \in {ApiHealth, Health}}

NextRouting ==
    \/ \E n \in Names, s \in RouteServices : Define(n, s)
    \/ \E n \in Names, d \in RegistryDetails : AddContainer(n, d)
    \/ \E n \in Names, d \in RegistryDetails : RemoveContainerById(n, d.id)
    \/ \E request \in RoutedRequests : HandleRequest(request)

SpecRouting == InitRegistry /\ [][NextRouting]_vars

(***************************************************************************)
(* decrypt_content (src/docker/api.rs) on every short string of an         *)
(* alphabet that holds the braces and the space of a marker.               *)
(***************************************************************************)
Alphabet == {"{", "}", " ", "a"}

\* the longest content
MaxLen == 4

Contents == UNION {[1..n -> Alphabet] : n \in 0..MaxLen}

\* Option<&RsaPrivateKey>
PrivateKeys == {{}, {"key"}}

Ok(value) == [ok |-> TRUE, value |-> value]
Err == [ok |-> FALSE]

RECURSIVE TrimStartMatches(_, _)
\* str::trim_start_matches(pattern): the prefix is removed as often as it matches
TrimStartMatches(s, p) ==
    IF StripPrefix(s, p) = {} THEN s
    ELSE TrimStartMatches(CHOOSE r \in StripPrefix(s, p) : TRUE, p)

RECURSIVE TrimEndMatches(_, _)
\* str::trim_end_matches(pattern): the suffix is removed as often as it matches
TrimEndMatches(s, p) ==
    IF Len(p) <= Len(s) /\ SubSeq(s, Len(s) - Len(p) + 1, Len(s)) = p
    THEN TrimEndMatches(SubSeq(s, 1, Len(s) - Len(p)), p)
    ELSE s

Text(text) == [kind |-> "Text", text |-> text]
Secret(encrypted) == [kind |-> "Secret", encrypted |-> encrypted]

RECURSIVE Scan(_, _, _, _)
\* the loop of find_replaceable_segments from character i on, with
\* current_segment and the segments pushed so far, and what follows the loop
Scan(s, i, current_segment, segments) ==
    IF i > Len(s)
    THEN IF current_segment # <<>> THEN Append(segments, Text(current_segment))
         ELSE segments
    ELSE IF s[i] = "{" /\ i < Len(s) /\ s[i + 1] = "{"
    THEN Scan(s, i + 2, <<"{", "{">>,
              IF current_segment # <<>> THEN Append(segments, Text(current_segment))
              ELSE segments)
    ELSE IF s[i] = "}" /\ i < Len(s) /\ s[i + 1] = "}"
    THEN Scan(s, i + 2, <<>>,
              Append(segments,
                     Secret(TrimEndMatches(
                                TrimStartMatches(current_segment \o <<"}", "}">>,
                                                 <<"{", "{", " ">>),
                                <<" ", "}", "}">>))))
    ELSE Scan(s, i + 1, Append(current_segment, s[i]), segments)

find_replaceable_segments(s) == Scan(s, 1, <<>>, <<>>)

\* base64 (STANDARD, canonical padding) of the strings of Alphabet: '{', '}'
\* and ' ' are no symbols of it, and the length is a multiple of 4
Base64Decodes(secret) ==
    /\ Len(secret) % 4 = 0
    /\ \A i \in DOMAIN secret : secret[i] = "a"

\* crypto::decrypt: the secret is decoded, then decrypted (PKCS#1 v1.5) with
\* the key; an empty ciphertext has no padding to remove.  What a longer
\* ciphertext decrypts to is some text that is not written in Alphabet
Decrypt(secret) ==
    IF ~Base64Decodes(secret) \/ secret = <<>> THEN Err
    ELSE Ok(<<"?">>)

RECURSIVE Concatenate(_, _)
\* the loop of decrypt_content over the segments: `?` leaves at the first
\* secret that does not decrypt
Concatenate(segments, decrypted_content) ==
    IF segments = <<>> THEN Ok(decrypted_content)
    ELSE LET segment == Head(segments)
             piece == IF segment.kind = "Text" THEN Ok(segment.text)
                      ELSE Decrypt(segment.encrypted)
         IN IF ~piece.ok THEN Err
            ELSE Concatenate(Tail(segments), decrypted_content \o piece.value)

decrypt_content(bytes, key) ==
    IF key = {} THEN Ok(bytes)
    ELSE Concatenate(find_replaceable_segments(bytes), <<>>)

\* a file is about to be mounted: any content, with or without a key
InitDecrypt ==
    /\ InitIdle /\ InitLocks /\ InitHealth
    /\ content \in Contents /\ private_key \in PrivateKeys /\ decrypted = NoCall

DecryptContent ==
    /\ decrypted = NoCall
    /\ decrypted' = [called |-> TRUE, result |-> decrypt_content(content, private_key)]
    /\ UNCHANGED <<registryVars, busVars, response, reconcilerVars, tlsVars,
                   content, private_key, lockVars, healthVars>>

NextDecrypt == DecryptContent

SpecDecrypt == InitDecrypt /\ [][NextDecrypt]_vars

(***************************************************************************)
(* The connection tasks of the proxy on the read path, beside the          *)
(* reconciler when nothing fails.                                          *)
(***************************************************************************)
NextLocks ==
    \/ \E h \in Handlers, request \in ReadPathRequests : ReadLock(h, request)
    \/ \E h \in Handlers : RngLock(h)
    \/ \E h \in Handlers : Choose(h)
    \/ HandleRequest(ReconciliationTrigger)
    \/ ReconcilerSucceeds

SpecLocks == Init /\ [][NextLocks]_vars

(***************************************************************************)
(* HealthCheck::run for every configuration with small thresholds and      *)
(* every sequence of probe outcomes.                                       *)
(***************************************************************************)
InitCheck ==
    /\ InitIdle /\ InitUnseal /\ InitLocks
    /\ thresholds \in HealthCheckConfigurations
    /\ InitRun

NextHealth == \E outcome \in ProbeOutcomes : Probe(outcome)

SpecHealth == InitCheck /\ [][NextHealth]_vars

(***************************************************************************)
(* Properties.                                                             *)
(***************************************************************************)
\* the ids of a sequence of container details
Ids(details) == {d.id : d \in Range(details)}

\* the entries of the log that are calls of op
CallsOf(op) == {i \in DOMAIN log : log[i].op = op}

\* handle_alteration is at work on a service that had a backend set
AlterationOfRunning ==
    /\ cur.kind = "Alteration"
    /\ pre.taken
    /\ cur.name \in DOMAIN pre.containers

\* C1: while an Alteration of a service is applied, in every state a reader
\* can observe (every state: a section under the write lock is one step) the
\* service has a backend set and the set is not empty, whether or not the
\* new containers start
C1_NoEmptyMomentDuringAlter ==
    AlterationOfRunning =>
        /\ cur.name \in DOMAIN containers
        /\ Len(containers[cur.name]) > 0

\* C1, witness: the old backends have left the registry, the new ones serve,
\* and the old containers are not retired yet
C1_Witness ==
    /\ AlterationOfRunning
    /\ pc = "retire"
    /\ idx = 1
    /\ Ids(containers[cur.name]) = Ids(started)
    /\ Ids(started) \cap Ids(running) = {}

\* C2: when handle_alteration returns Ok for a service that had old.replicas
\* backends, the backend set of the service is exactly the new.replicas
\* containers started for the change, no old backend is registered, the engine
\* received new.replicas create and as many start calls, all for the new
\* image:tag, and no old container is running in the engine
C2_AlterReplacesBackends ==
    (/\ pc = "returned" /\ result = "ok" /\ cur.kind = "Alteration"
     /\ Len(running) = cur.old_definition.replicas)
    => LET new == cur.new_definition
       IN /\ cur.name \in DOMAIN containers
          /\ Len(containers[cur.name]) = new.replicas
          /\ Ids(containers[cur.name]) = {log[i].id : i \in CallsOf("create")}
          /\ Ids(containers[cur.name]) \cap DOMAIN pre.engine = {}
          /\ \A n \in DOMAIN containers : Ids(containers[n]) \cap Ids(running) = {}
          /\ Cardinality(CallsOf("create")) = new.replicas
          /\ Cardinality(CallsOf("start")) = new.replicas
          /\ \A i \in CallsOf("create") \cup CallsOf("start") :
                log[i].ok /\ log[i].image = ImageRef(new)
          /\ \A id \in Ids(containers[cur.name]) :
                id \in DOMAIN engine /\ engine[id] = [image |-> ImageRef(new), status |-> "running"]
          /\ \A id \in Ids(running) : id \in DOMAIN engine => engine[id].status # "running"

\* C2, witness: an Alteration of a service with two backends has returned Ok
C2_Witness ==
    /\ pc = "returned" /\ result = "ok" /\ cur.kind = "Alteration"
    /\ Len(running) = cur.old_definition.replicas
    /\ Len(running) = 2

\* C3: every service name that has a backend set also has a definition
C3_NoBackendForUndefinedService == DOMAIN containers \subseteq DOMAIN definitions

\* C4: find_downstreams returns Some exactly when a definition has the host
\* of the request and the service selected has at least one backend
C4_SomeIffRouteAndBackend ==
    found.called =>
        ((found.result.kind = "Some")
            <=> /\ \E n \in DOMAIN definitions : definitions[n].host = found.host
                /\ \E n \in found.selected :
                      n \in DOMAIN containers /\ Len(containers[n]) >= 1)

\* p is a prefix of the path s
IsPrefixOf(p, s) == Len(p) <= Len(s) /\ \A i \in 1..Len(p) : p[i] = s[i]

\* the route of definition d matches the path: it has no prefix, or its
\* prefix starts the path
RouteMatches(d, path) == \A p \in d.path_prefix : IsPrefixOf(p, path)

\* the match length of a route that matches: what of the path its prefix
\* leaves
RouteMatchLength(d, path) ==
    IF d.path_prefix = {} THEN Len(path)
    ELSE Len(path) - Len(CHOOSE p \in d.path_prefix : TRUE)

\* C5: the entry find_downstreams selects has the host of the request and no
\* entry with that host has a smaller match length: when the selected route
\* matches, every other candidate does not match or leaves at least as much of
\* the path; when it does not match, no candidate matches.  With a service
\* without prefix and an /api service on one host, /api/h selects the /api
\* service and /h the one without prefix
C5_SelectsLongestMatchingPrefix ==
    found.called =>
        /\ (found.selected = {})
              <=> ~\E n \in DOMAIN definitions : definitions[n].host = found.host
        /\ \A s \in found.selected :
              /\ s \in DOMAIN definitions
              /\ definitions[s].host = found.host
              /\ \A c \in DOMAIN definitions :
                    definitions[c].host = found.host =>
                        IF RouteMatches(definitions[s], found.path)
                        THEN \/ ~RouteMatches(definitions[c], found.path)
                             \/ RouteMatchLength(definitions[s], found.path)
                                    <= RouteMatchLength(definitions[c], found.path)
                        ELSE ~RouteMatches(definitions[c], found.path)
        /\ (/\ DOMAIN definitions = {"frontend", "backend"}
            /\ definitions["frontend"].host = found.host
            /\ definitions["backend"].host = found.host
            /\ definitions["frontend"].path_prefix = {}
            /\ definitions["backend"].path_prefix = {Api})
           => /\ found.path = ApiHealth => found.selected = {"backend"}
              /\ found.path = Health => found.selected = {"frontend"}

\* C5, witness: both services of the example are defined and /api/h has
\* selected the /api service
C5_Witness ==
    /\ found.called
    /\ DOMAIN definitions = {"frontend", "backend"}
    /\ definitions["frontend"].host = found.host
    /\ definitions["backend"].host = found.host
    /\ definitions["frontend"].path_prefix = {}
    /\ definitions["backend"].path_prefix = {Api}
    /\ found.path = ApiHealth
    /\ found.selected = {"backend"}

\* the request is a PUT on one of the two admin paths
IsAdminPut(request) ==
    request.method = "PUT" /\ request.path \in {ReconciliationPath, CertificatesPath}

\* the request carries the bearer handle_request expects
HasCorrectBearer(request) == request.authorization = {Bearer \o AdminPassphrase}

C7_OnlyShutdownSignalExits == process # "running" => process = "shutdown_signal"

\* C8: a step in which the load of the manifest fails changes neither the
\* manifest handle nor the registry, and calls the engine for nothing
C8_FailedLoadKeepsState ==
    [][(pc = "reconcile" /\ pc' = "stopped")
          => UNCHANGED <<config, definitions, containers, engine, images, nextId, log>>]_vars

\* C8, witness: the load failed in a pass over a registry with backends
C8_Witness ==
    /\ pc = "stopped" /\ process = "reconciler_error"
    /\ cur = NoChange
    /\ DOMAIN containers # {}

\* the handler of cur returned an error from start_multiple_containers
StartFailed ==
    /\ pc = "returned" /\ result = "err"
    /\ cur.kind \in {"Addition", "Alteration"}
    /\ CallsOf("register") = {}

\* C9: when the start of the new containers of an Addition or an Alteration
\* fails, no container created for the change is left in the engine
C9_FailedStartLeavesNoContainer ==
    StartFailed => \A i \in CallsOf("create") : log[i].id \notin DOMAIN engine

\* C10: when handle_alteration returns, either every new backend is
\* registered and the stop or remove of every old container was issued, or
\* the error is returned with the registry and the engine as before the change
C10_AlterNeverPartial ==
    (pc = "returned" /\ AlterationOfRunning) =>
        \/ /\ Len(started) = cur.new_definition.replicas
           /\ cur.name \in DOMAIN containers
           /\ Ids(started) \subseteq Ids(containers[cur.name])
           /\ \A id \in Ids(running) :
                 \E i \in CallsOf("stop") \cup CallsOf("remove") : log[i].id = id
        \/ /\ result = "err"
           /\ definitions = pre.definitions
           /\ containers = pre.containers
           /\ engine = pre.engine

\* the handler of cur has returned an error while applying an Addition or an
\* Alteration
ChangeFailed ==
    /\ pc = "returned" /\ result = "err"
    /\ cur.kind \in {"Addition", "Alteration"}

\* C11: when an engine call fails while an Addition or an Alteration is
\* applied, the definitions and the backend sets of the registry after the
\* change are those before it
C11_FailedChangeRestoresRegistry ==
    ChangeFailed => definitions = pre.definitions /\ containers = pre.containers

\* C12: an error in one change of a diff aborts only that change: when the
\* pass is over, no change of the diff is left that was never dispatched
C12_FailedChangeAbortsOnlyItself ==
    (pc = "stopped" /\ result = "err") => pending = <<>>

\* C13: when handle_removal returns, the registry has neither a definition nor
\* a backend set for the service, also when the engine failed, and
\* remove_container was issued for every container that was registered for it
C13_RemovalClearsAndRemovesAll ==
    (pc = "returned" /\ cur.kind = "Removal") =>
        /\ cur.name \notin DOMAIN definitions
        /\ cur.name \notin DOMAIN containers
        /\ \A id \in Ids(running) : \E i \in CallsOf("remove") : log[i].id = id

\* every defined service has as many registered backends as replicas
Converged ==
    \A n \in DOMAIN definitions :
        n \in DOMAIN containers /\ Len(containers[n]) = definitions[n].replicas

\* C14: under a quiescent manifest the system eventually reaches, and stays
\* in, a state where every defined service has as many registered backends
\* as definitions[name].replicas
C14_EventuallyReplicasBackends == <>[]Converged

\* C14, witness: a pass has scaled a service with stopped old containers down
\* to one replica, nothing is pending, and the counts agree
C14_Witness ==
    /\ pc = "receive" /\ reconciliation = <<>> /\ nextUuid > 1
    /\ Converged
    /\ \E id \in DOMAIN engine : engine[id].status = "exited"
    /\ \E n \in DOMAIN definitions : definitions[n].replicas = 1

\* the changes of the vector d that are for service n
ChangesFor(d, n) == {i \in DOMAIN d : d[i].name = n}

\* C15: the diff reconcile computes from the manifest in the handle and the
\* manifest loaded has, for every name, at most one change: an Alteration
\* exactly when the name is in both and its definitions differ in any field,
\* a Removal exactly when it is only in the old one, an Addition exactly when
\* it is only in the new one; an Alteration and an Addition carry the
\* definition of the new manifest
C15_DiffIsTheReferenceChangeSet ==
    [][\A new \in Manifests :
          Reconcile(new) =>
              LET d == IF pc' = "dispatch" THEN pending' ELSE <<>>
              IN /\ \A i \in DOMAIN d : d[i].name \in DOMAIN config \cup DOMAIN new
                 /\ \A n \in DOMAIN config \cup DOMAIN new :
                       /\ Cardinality(ChangesFor(d, n)) <= 1
                       /\ (\E i \in ChangesFor(d, n) : d[i].kind = "Alteration")
                             <=> (/\ n \in DOMAIN config /\ n \in DOMAIN new
                                  /\ config[n] # new[n])
                       /\ (\E i \in ChangesFor(d, n) : d[i].kind = "Removal")
                             <=> (n \in DOMAIN config /\ n \notin DOMAIN new)
                       /\ (\E i \in ChangesFor(d, n) : d[i].kind = "Addition")
                             <=> (n \notin DOMAIN config /\ n \in DOMAIN new)
                       /\ \A i \in ChangesFor(d, n) :
                             /\ d[i].kind = "Alteration" => d[i].new_definition = new[n]
                             /\ d[i].kind = "Addition" => d[i].definition = new[n]]_vars

\* C15, witness: a diff of two changes, one of them an Alteration whose
\* definitions have the same tag
C15_Witness ==
    /\ pc = "dispatch" /\ Len(pending) = 2
    /\ \E i \in DOMAIN pending :
          /\ pending[i].kind = "Alteration"
          /\ pending[i].old_definition.tag = pending[i].new_definition.tag

\* C16: diff(m, m) is None for every manifest, and a pass that loads the
\* manifest the handle already holds goes back to receive without a change
\* of the registry and without an engine call
C16_UnchangedManifestIsNoOp ==
    /\ [](\A m \in Manifests : Diff(m, m) = {})
    /\ [][Reconcile(config) =>
             /\ pc' = "receive"
             /\ UNCHANGED <<config, definitions, containers, engine, images, nextId,
                            log, pending, cur>>]_vars

\* C16, witness: the one message sent was consumed by a pass, the reconciler
\* is receiving again, and the engine still is as start-up left it
C16_Witness ==
    /\ pc = "receive" /\ process = "running"
    /\ nextUuid = 2 /\ reconciliation = <<>> /\ resolver = <<>>
    /\ DOMAIN config # {}
    /\ engine = Started(config).engine
    /\ nextId = Started(config).nextId

\* C17: once a certificate_update message is queued and the staged material
\* of every domain parses, the resolver eventually holds the staged
\* certificate of every configured domain, unless the material is replaced
\* again first
C17_UpdateEventuallyServesStaged ==
    \A s \in [ConfiguredDomains -> Materials \ {"bad"}] :
        (resolver # <<>> /\ staged = s) ~> (domains = s \/ staged # s)

\* C17, witness: an update has stored the new certificate of both domains
C17_Witness ==
    /\ lastUpdate.outcome = "stored"
    /\ \A d \in ConfiguredDomains : staged[d] = "new" /\ domains[d] = "new"
    /\ lastUpdate.before = [d \in ConfiguredDomains |-> "old"]

\* C18: after an update in which the material of a domain could not be
\* fetched or parsed, the map is the map before the update
C18_FailedUpdateKeepsTheMap ==
    lastUpdate.outcome = "rejected" => domains = lastUpdate.before

\* C18, witness: an update was rejected after the new material of another
\* domain had parsed
C18_Witness ==
    /\ lastUpdate.outcome = "rejected"
    /\ \E d \in DOMAIN lastUpdate.parsed : lastUpdate.parsed[d] # domains[d]

\* C19: the map is replaced at once: while an update runs the map is the
\* one before it, a step that changes the map stores the complete map the
\* update built, the map always has every configured domain, and a handshake
\* is answered from the map as it is
C19_MapReplacedAtomically ==
    /\ [](DOMAIN domains = ConfiguredDomains)
    /\ [](lastUpdate.outcome = "running" => domains = lastUpdate.before)
    /\ [](hello.called =>
            hello.certificate = ResolveCertificate(domains, hello.server_name))
    /\ [][domains' # domains =>
             /\ lastUpdate.outcome = "running" /\ lastUpdate'.outcome = "stored"
             /\ domains' = lastUpdate'.parsed
             /\ DOMAIN domains' = ConfiguredDomains
             /\ \A d \in DOMAIN building : domains'[d] = building[d]]_vars

\* C19, witness: a handshake is answered from the previous map while the
\* update has already parsed another certificate for its domain
C19_Witness ==
    /\ lastUpdate.outcome = "running"
    /\ hello.called
    /\ \E d \in DOMAIN building :
          /\ hello.server_name = {d}
          /\ hello.certificate = {domains[d]}
          /\ building[d] # domains[d]

\* C20: resolve returns Mutual exactly when the manifest in the handle has an
\* mtls section whose domains contain the name, Standard otherwise, for the
\* handle as it is at the call
C20_LevelFollowsTheHandle ==
    level.called =>
        /\ level.level \in {"Mutual", "Standard"}
        /\ (level.level = "Mutual")
              <=> \E D \in mtls : level.client_hello \in D

\* C20, witness: a store has put a section in the handle that names one
\* domain, and resolve answers Standard for another
C20_Witness ==
    /\ level.called
    /\ mtls = {{"primary.example.com"}}
    /\ level.client_hello = "example.org"
    /\ level.level = "Standard"

\* C21: a reconciliation pass that reloads a manifest makes the next
\* resolution of the authentication level answer by the mtls section of the
\* reloaded manifest, for every server name, whether or not a service
\* declaration changed
C21_ReloadedMtlsIsObserved ==
    [][\A new \in Manifests, section \in ReloadedSections :
          ReconcileManifest(new, section)
              => \A n \in ServerNames :
                    ResolveLevel(mtls', n) = ResolveLevel(section, n)]_vars

\* the channel of the bus with this name
Channel(name) == IF name = "reconciliation" THEN reconciliation ELSE resolver

\* C22: on each channel the identifiers received so far are the first ones
\* sent, in the order of the sends, and the ones sent and not yet received
\* wait in the channel in that order; no identifier is sent twice, and none
\* sent on one channel is on the other
C22_ChannelsAreFifo ==
    /\ \A c \in {"reconciliation", "resolver"} :
          /\ traffic.sent[c] = traffic.received[c] \o Channel(c)
          /\ Cardinality(Range(traffic.sent[c])) = Len(traffic.sent[c])
    /\ Range(traffic.sent.reconciliation) \cap Range(traffic.sent.resolver) = {}

\* C22, witness: every message of the exploration was sent on the
\* reconciliation channel and received from it
C22_Witness ==
    /\ Len(traffic.received.reconciliation) = MaxMessages
    /\ traffic.received.reconciliation = traffic.sent.reconciliation

\* C23: a message leaves the reconciliation channel, and a pass starts, only
\* in a step of the idle reconciler that takes exactly the oldest message and
\* starts one pass; a trigger sent while a pass runs is appended to the
\* channel and leaves the pass alone
C23_OnePassPerMessage ==
    [][/\ (Len(reconciliation') < Len(reconciliation) \/ (pc' = "reconcile" /\ pc # "reconcile"))
            => /\ pc = "receive" /\ pc' = "reconcile"
               /\ reconciliation # <<>>
               /\ reconciliation' = Tail(reconciliation)
               /\ Len(traffic'.received.reconciliation)
                     = Len(traffic.received.reconciliation) + 1
       /\ (pc # "receive" /\ nextUuid' # nextUuid)
            => /\ reconciliation' = Append(reconciliation, nextUuid)
               /\ pc' = pc]_vars

\* C23, witness: a pass is in progress while two triggers have been sent, one
\* of them still queued
C23_Witness ==
    /\ process = "running"
    /\ pc \notin {"receive", "stopped"}
    /\ Len(traffic.sent.reconciliation) = 2
    /\ Len(reconciliation) = 1

\* C24: a request on an admin path whose method is not PUT sends nothing on
\* the bus, is not answered 403 (nor 200 by the admin branch), and gets one of
\* the answers of the routing
C24_OnlyPutIsAnAdminCommand ==
    [][\A request \in AdminPathRequests :
          (request.method # "PUT" /\ HandleRequest(request))
              => /\ reconciliation' = reconciliation /\ resolver' = resolver
                 /\ nextUuid' = nextUuid /\ traffic' = traffic
                 /\ response'.status \notin {"403", "200"}
                 /\ \E r \in RouteRequest(definitions, containers, request) :
                       response' = Answer(request, r.status, r.to)]_vars

\* C24, witness: of the requests on the admin paths, a GET was forwarded to
\* a backend after two PUTs had sent their messages
C24_Witness ==
    /\ response # NoResponse
    /\ response.method = "GET"
    /\ response.status = "upstream"
    /\ nextUuid = 3

\* C25: a request whose host is the host of defined services, none of which
\* has a backend (no backend set, or an empty one), is answered 404
C25_NoBackendsIs404 ==
    [][\A request \in RoutedRequests :
          (/\ HandleRequest(request)
           /\ HostMatches(definitions, CHOOSE h \in request.host : TRUE) # {}
           /\ \A n \in HostMatches(definitions, CHOOSE h \in request.host : TRUE) :
                 GetRunningContainers(containers, n) \subseteq {<<>>})
              => response'.status = "404"]_vars

\* C26: right after undefine(name) the registry has no definition for name
\* and get_running_containers(name) is None
C26_UndefineRemovesBoth ==
    [][\A n \in Names :
          Undefine(n) => /\ n \notin DOMAIN definitions'
                         /\ GetRunningContainers(containers', n) = {}]_vars

\* C27: no backend set holds two entries with the same container id
C27_OneEntryPerContainerId ==
    \A n \in DOMAIN containers :
        \A i, j \in DOMAIN containers[n] :
            containers[n][i].id = containers[n][j].id => i = j

\* C28: no container id is in the backend sets of two different services
C28_IdUnderOneService ==
    \A n, m \in DOMAIN containers :
        n # m => Ids(containers[n]) \cap Ids(containers[m]) = {}

\* C28, witness: a change has just registered new containers for one service
\* while the other service has backends too
C28_Witness ==
    /\ pc = "returned" /\ result = "ok"
    /\ cur.kind \in {"Addition", "Alteration"}
    /\ DOMAIN containers = Names
    /\ \A n \in Names : containers[n] # <<>>

\* a {{ ... }} marker: an opening pair of braces and, after it, a closing pair
HasMarker(s) ==
    \E i, j \in 1..Len(s) :
        /\ i + 2 <= j /\ j + 1 <= Len(s)
        /\ s[i] = "{" /\ s[i + 1] = "{"
        /\ s[j] = "}" /\ s[j + 1] = "}"

\* C29: decrypt_content returns a content without a marker unchanged, with
\* or without a key
C29_NoMarkerIsUnchanged ==
    (decrypted # NoCall /\ ~HasMarker(content)) => decrypted.result = Ok(content)

\* the position of the registry write of an alteration that adds the new
\* containers (0 when it has not happened); the write that removes the old ones
RegisteredAt == IF CallsOf("register") = {} THEN 0 ELSE CHOOSE i \in CallsOf("register") : TRUE
UnregisteredAt ==
    IF CallsOf("unregister") = {} THEN 0 ELSE CHOOSE i \in CallsOf("unregister") : TRUE

\* C30: in an alteration, when an old backend has left the registry or the
\* old containers have been unregistered, new.replicas new containers were
\* created and started and are registered, all of that before; and a stop or
\* remove of an old container comes after the old backends were unregistered,
\* when none of them is in the registry
C30_MakeBeforeBreak ==
    cur.kind = "Alteration" =>
        /\ (UnregisteredAt # 0 \/ ~(Ids(running) \subseteq Ids(containers[cur.name])))
              => /\ RegisteredAt # 0 /\ RegisteredAt < UnregisteredAt
                 /\ Len(started) = cur.new_definition.replicas
                 /\ \A d \in Range(started) :
                       /\ \E i \in CallsOf("create") : i < RegisteredAt /\ log[i].id = d.id
                       /\ \E i \in CallsOf("start") :
                             i < RegisteredAt /\ log[i].id = d.id /\ log[i].ok
                       /\ engine[d.id].status = "running"
                       /\ d \in Range(containers[cur.name])
        /\ \A k \in CallsOf("stop") \cup CallsOf("remove") :
              /\ log[k].id \in Ids(running)
              /\ UnregisteredAt # 0 /\ UnregisteredAt < k
              /\ Ids(running) \cap Ids(containers[cur.name]) = {}

\* C30, witness: the first old container of an alteration to two replicas
\* has been stopped, another old one is still to be retired
C30_Witness ==
    /\ cur.kind = "Alteration"
    /\ cur.new_definition.replicas = 2
    /\ pc = "retire"
    /\ CallsOf("stop") # {}
    /\ Len(running) = 2

\* the engine call the shutdown mode of a definition asks for, and the other one
RetireOp(definition) == IF definition.shutdown_mode = "Graceful" THEN "stop" ELSE "remove"
OtherRetireOp(definition) == IF definition.shutdown_mode = "Graceful" THEN "remove" ELSE "stop"

C32_RegistryFollowsTheEngine ==
    pre.taken =>
        \A n \in Names :
            LET before == IF n \in DOMAIN pre.containers THEN Range(pre.containers[n]) ELSE {}
                now == IF n \in DOMAIN containers THEN Range(containers[n]) ELSE {}
            IN /\ \A d \in now \ before :
                     /\ \E i \in CallsOf("create") : log[i].id = d.id /\ log[i].ok
                     /\ \E i \in CallsOf("start") : log[i].id = d.id /\ log[i].ok
                     /\ \E i \in CallsOf("ip") : log[i].id = d.id /\ log[i].ok
               /\ \A d \in before \ now :
                     \E i \in CallsOf("stop") \cup CallsOf("remove") :
                         log[i].id = d.id /\ log[i].ok

\* the changes of the pass that are being handled or still to be handled
ChangesAhead == Range(pending) \cup (IF cur = NoChange THEN {} ELSE {cur})

\* the manifest m declares what the change leads to
Declares(m, change) ==
    IF change.kind = "Removal" THEN change.name \notin DOMAIN m
    ELSE change.name \in DOMAIN m /\ m[change.name] = NewDefinition(change)

\* C33: reconcile writes nothing to the registry, leaves the handle alone
\* when the diff is empty and swaps it to the loaded manifest otherwise; and
\* every step of the pass that writes the registry finds the handle already
\* holding the manifest the changes of the pass lead to, and leaves it alone
C33_HandleSwappedBeforeTheRegistry ==
    /\ [][\A new \in Manifests :
             Reconcile(new) =>
                 /\ definitions' = definitions /\ containers' = containers
                 /\ config' = IF Diff(config, new) = {} THEN config ELSE new]_vars
    /\ [](pc \in {"dispatch", "private_key", "create", "start", "ip", "register",
                  "unregister", "undefine", "retire", "returned"}
             => \A change \in ChangesAhead : Declares(config, change))
    /\ [][(definitions' # definitions \/ containers' # containers)
             => /\ pc \in {"register", "unregister", "undefine"}
                /\ config' = config
                /\ Declares(config, cur)]_vars

\* C33, witness: the first change of a pass of two has registered its
\* containers, and the handle already declares the second one
C33_Witness ==
    /\ pc = "returned" /\ result = "ok"
    /\ cur.kind = "Addition"
    /\ pending # <<>>
    /\ definitions[cur.name] = config[cur.name]
    /\ Declares(config, Head(pending))
    /\ ~Declares(definitions, Head(pending))

\* C34: no connection task is suspended while it holds the read guard of
\* the registry
C34_NoSuspensionUnderTheReadGuard ==
    \A h \in registry_lock.readers : handlers[h].pc # "rng_lock"

\* the probes of os that were answered with a success status
Successful(os) == {i \in DOMAIN os : os[i] = "2xx"}

\* C35: the counters are the numbers of successful and of other probes made
\* so far, whatever their order; run has returned Success exactly when the
\* successes have reached their threshold, Failure exactly when they have not
\* and the failures have reached theirs, it probes again otherwise, it did
\* not probe after a threshold was reached, and with thresholds of at least
\* 1 it makes at most success_threshold + failure_threshold - 1 probes
C35_CumulativeThresholds ==
    LET made == Len(outcomes)
        earlier == SubSeq(outcomes, 1, made - 1)
    IN /\ successes = Cardinality(Successful(outcomes))
       /\ failures = made - Cardinality(Successful(outcomes))
       /\ made >= 1 =>
             /\ (health = "Success") <=> successes >= thresholds.success_threshold
             /\ (health = "Failure") <=> /\ successes < thresholds.success_threshold
                                        /\ failures >= thresholds.failure_threshold
       /\ made = 0 => health = "probing"
       /\ made >= 2 =>
             /\ Cardinality(Successful(earlier)) < thresholds.success_threshold
             /\ (made - 1) - Cardinality(Successful(earlier)) < thresholds.failure_threshold
       /\ (thresholds.success_threshold >= 1 /\ thresholds.failure_threshold >= 1)
             => made <= thresholds.success_threshold + thresholds.failure_threshold - 1

\* C35, witness: thresholds (3, 3) and the outcomes fail, ok, ok, fail, fail
\* give Failure
C35_Witness ==
    /\ thresholds = [success_threshold |-> 3, failure_threshold |-> 3]
    /\ outcomes = <<"other", "2xx", "2xx", "error", "other">>
    /\ health = "Failure"

\* C36: when no pass is in progress (the reconciler waits for a message, or
\* its last pass has ended in an error) the definitions of the registry are
\* the services of the manifest in the handle
C36_DefinitionsAgreeWithTheHandle ==
    pc \in {"receive", "stopped"} => definitions = config

\* C37: while a change is handled, every backend registered for a defined
\* service was started from the definition now registered for it: from the
\* definition registered at the dispatch if it was a backend then, from the
\* definition of the change otherwise
C37_BackendsOfTheRegisteredDefinition ==
    pre.taken =>
        \A n \in DOMAIN containers \cap DOMAIN definitions :
            \A d \in Range(containers[n]) :
                IF n \in DOMAIN pre.containers /\ d \in Range(pre.containers[n])
                THEN n \in DOMAIN pre.definitions /\ pre.definitions[n] = definitions[n]
                ELSE NewDefinition(cur) = definitions[n]

\* C38: the reconciler holds no guard of the registry where it awaits an
\* engine call, and a step that makes an engine call writes nothing to the
\* registry
C38_NoGuardAcrossEngineCalls ==
    /\ [](pc \in {"create", "start", "ip", "retire"} => ~registry_lock.writer)
    /\ [][(Len(log') = Len(log) + 1 /\ Len(log') \in {i \in DOMAIN log' :
                log'[i].op \in {"create", "start", "ip", "stop", "remove"}})
            => /\ ~registry_lock.writer /\ ~registry_lock'.writer
               /\ definitions' = definitions /\ containers' = containers]_vars

\* C38, witness: a removal has undefined its service and removed the first
\* of its containers from the engine, the second is still to remove
C38_Witness ==
    /\ cur.kind = "Removal"
    /\ pc = "retire" /\ idx = 2
    /\ CallsOf("undefine") # {}
    /\ ~registry_lock.writer

\* the entries of the map m under the names other than n
Others(m, n) == [x \in DOMAIN m \ {n} |-> m[x]]

\* the backend set of n, empty when there is none
Backends(conts, n) == IF n \in DOMAIN conts THEN conts[n] ELSE <<>>

\* C39: a mutation on n leaves the definitions and the backend sets of the
\* other services as they are; define leaves every backend set, add and
\* remove leave every definition, and the backends of n that stay keep their
\* relative order
C39_MutatorsTouchTheirServiceOnly ==
    [][(definitions' # definitions \/ containers' # containers) => \A n \in Names :
          /\ (\E s \in RouteServices : Define(n, s))
                => /\ Others(definitions', n) = Others(definitions, n)
                   /\ containers' = containers
          /\ Undefine(n) => Others(definitions', n) = Others(definitions, n)
          /\ (\E d \in RegistryDetails : AddContainer(n, d))
                => /\ definitions' = definitions
                   /\ Others(containers', n) = Others(containers, n)
                   /\ SelectSeq(Backends(containers', n),
                                LAMBDA c : c \in Range(Backends(containers, n)))
                         = Backends(containers, n)
          /\ (\E d \in RegistryDetails : RemoveContainerById(n, d.id))
                => /\ definitions' = definitions
                   /\ Others(containers', n) = Others(containers, n)
                   /\ SelectSeq(Backends(containers, n),
                                LAMBDA c : c \in Range(Backends(containers', n)))
                         = Backends(containers', n)
          /\ RemoveAllContainers(n)
                => /\ definitions' = definitions
                   /\ Others(containers', n) = Others(containers, n)]_vars

\* C39, witness: both services are defined, the backends of one were removed
\* by id down to an empty set, the other one holds two
C39_Witness ==
    /\ DOMAIN definitions = Names /\ DOMAIN containers = Names
    /\ containers["frontend"] = <<>>
    /\ Len(containers["backend"]) = 2

\* C40: the task of the updater never ends; after an update that was
\* rejected, a queued message is still received and its update ends, and if
\* the staged material parses for every domain the map is replaced by it,
\* unless the material is replaced again first
C40_RejectedUpdateDoesNotStopTheUpdater ==
    /\ [](certPc \in {"receive", "resolve"})
    /\ \A k \in 1..MaxMessages :
          (Len(updates) = k /\ updates[k] = "rejected" /\ resolver # <<>>)
              ~> (Len(updates) > k)
    /\ \A s \in [ConfiguredDomains -> Materials \ {"bad"}] :
          (updates # <<>> /\ updates[Len(updates)] = "rejected"
                /\ resolver # <<>> /\ staged = s)
              ~> (domains = s \/ staged # s)

\* C40, witness: a first update was rejected and the next one has stored
\* the new certificates
C40_Witness ==
    /\ updates = <<"rejected", "stored">>
    /\ \A d \in ConfiguredDomains : domains[d] = "new"

====
